---- MODULE Spec2Model ----
(***************************************************************************)
(* A model of the JSON structure extractor (src/popup/popup.js and the     *)
(* earlier popup script src/unnamed/part_001).                             *)
(*                                                                         *)
(* JavaScript values live in a heap: a composite (array or object) is a    *)
(* heap node with an identity, a value is a primitive or a reference to a  *)
(* node.  A JavaScript string is a sequence of tokens, each token standing *)
(* for a piece of text; concatenation is \o and the empty string is <<>>.  *)
(***************************************************************************)
EXTENDS Integers, Sequences, FiniteSets, TLC

VARIABLES
  heap,            \* the composites allocated so far: heap[n] is node n
  data,            \* the value handed to extractStructure / typeScriptToText / compareStructures (a)
  dataB,           \* the second value of a comparison (b)
  options,         \* getOptions() of the last extraction
  structureResult, \* what the last extraction returned
  outputHtml,      \* elements.output.innerHTML: the highlighted rendering
  outputText,      \* the plain text rendering
  compareResult,   \* what compareStructures returned
  phase,           \* "build" while the input is being built, then the operation applied
  secondResult,    \* what a second top-level extraction returned
  compareOutput,   \* elements.compareOutput.innerHTML: the comparison report
  historyCache,    \* let historyCache: null or the history array
  storage,         \* what chrome.storage.local holds under HISTORY_KEY
  pending,         \* the chrome.storage calls issued and not yet completed, oldest first
  nextId,          \* the clock: the id (Date.now()) the next history item gets
  script,          \* which popup script runs: "popup.js" or "part_001"
  currentTab,      \* let currentTab
  clipboard,       \* the text of the last navigator.clipboard.writeText call
  toast,           \* the message showToast showed last
  lastClick,       \* the last click: its kind, its input, what it invoked and wrote
  extraction,      \* how the extract tab stands: "none", "ok", "failed", "blank" or "cleared"
  calls            \* how many saves, history clears and clicks were made so far

historyVars == <<historyCache, storage, pending, nextId>>
popupVars == <<script, currentTab, clipboard, toast, lastClick, extraction>>

\* what the operations on a built input leave alone
otherVars == <<secondResult, compareOutput, historyVars, popupVars, calls>>

vars == <<heap, data, dataB, options, structureResult, outputHtml, outputText, compareResult,
          phase, otherVars>>

(***************************************************************************)
(* Bounds of the model.                                                    *)
(***************************************************************************)
MaxFields == 2        \* properties and array elements of an extracted input, all nodes together
MaxPairFields == 3    \* properties and array elements of the two compared inputs together
MaxDepthOption == 2   \* the maxDepth option ranges over 0..MaxDepthOption
MaxSaves == 2         \* calls of saveToHistory
MaxClears == 1        \* clear-history clicks
MaxClicks == 3        \* clicks on the buttons and tabs of the popup

(***************************************************************************)
(* JavaScript values.                                                      *)
(***************************************************************************)
Null == [t |-> "null"]
Undefined == [t |-> "undefined"]
Num(n) == [t |-> "number", n |-> n]
Str(s) == [t |-> "string", s |-> s]
Bool(b) == [t |-> "boolean", b |-> b]
Ref(r) == [t |-> "ref", r |-> r]
\* an inherited method, such as ({}).constructor
Func == [t |-> "function"]

IsRef(v) == v.t = "ref"

\* a string of 31 characters, one more than the sample limit
LongString == [i \in 1..31 |-> "a"]

Primitives == {Null, Num(7), Str(<<"s">>), Str(LongString), Bool(TRUE)}

\* the property names an input object may carry
Keys == {"x", "y"}

EmptyObject == [kind |-> "object", keys |-> <<>>, items |-> <<>>]
EmptyArray == [kind |-> "array", keys |-> <<>>, items |-> <<>>]

IsArray(h, v) == IsRef(v) /\ h[v.r].kind = "array"
IsObject(h, v) == IsRef(v) /\ h[v.r].kind = "object"

\* typeof v
TypeOf(v) ==
  CASE v.t = "ref" -> "object"
    [] v.t = "null" -> "object"
    [] OTHER -> v.t

\* Object.keys(v) of an object, the indices of an array
OwnKeys(h, v) == h[v.r].keys

\* the own property v[key]
RECURSIVE IndexOf(_, _, _)
IndexOf(seq, x, i) ==
  IF i > Len(seq) THEN 0
  ELSE IF seq[i] = x THEN i
  ELSE IndexOf(seq, x, i + 1)

HasOwn(h, v, key) == IndexOf(h[v.r].keys, key, 1) > 0
GetOwn(h, v, key) == h[v.r].items[IndexOf(h[v.r].keys, key, 1)]

\* the number of properties and elements of the heap
RECURSIVE SizeFrom(_, _)
SizeFrom(h, n) == IF n > Len(h) THEN 0 ELSE Len(h[n].items) + SizeFrom(h, n + 1)
Size(h) == SizeFrom(h, 1)

(***************************************************************************)
(* Shapes: what extractStructure returns.  A string, null, or an object    *)
(* whose properties are shapes.                                            *)
(***************************************************************************)
SString(s) == [k |-> "string", s |-> s]
SNull == [k |-> "null"]
SObject(keys, vals) == [k |-> "object", keys |-> keys, vals |-> vals]

TruncationMarker == <<"...">>
CircularMarker == <<"[", "Circular", "]">>

\* `[${data.length}]`
LengthInfo(opts, len) ==
  IF opts.showLength THEN <<"[", ToString(len), "]">> ELSE <<>>

\* a variant that truncates one level late
TruncatesOffByOne(opts, depth) ==
  opts.maxDepth > 0 /\ depth > opts.maxDepth
\* maxDepth > 0 && depth >= maxDepth
Truncates(opts, depth) ==
  opts.maxDepth > 0 /\ depth >= opts.maxDepth

\* data.length > 30 ? data.slice(0, 30) + '...' : data
SampleLimit == 30
Sample(s) ==
  IF Len(s) > SampleLimit THEN SubSeq(s, 1, SampleLimit) \o <<"...">> ELSE s

\* the type name of null, undefined, a string, a number or a boolean, with its sample
LeafType(v, opts) ==
  CASE v.t = "string" ->
         IF opts.showSample
         THEN <<"string", " ", "(", "\"">> \o Sample(v.s) \o <<"\"", ")">>
         ELSE <<"string">>
    [] v.t = "number" ->
         IF opts.showSample THEN <<"number", " ", "(", ToString(v.n), ")">> ELSE <<"number">>
    [] v.t = "boolean" ->
         IF opts.showSample
         THEN <<"boolean", " ", "(", IF v.b THEN "true" ELSE "false", ")">>
         ELSE <<"boolean">>
    [] OTHER -> <<v.t>>

\* a variant that keeps the type name of a boolean under keysOnly
LeafShapeKeepsBoolean(v, opts) ==
  IF opts.keysOnly /\ v.t # "boolean" THEN SNull ELSE SString(LeafType(v, opts))
\* the shape of a leaf: keysOnly ? null : the type name
LeafShape(v, opts) ==
  IF opts.keysOnly THEN SNull ELSE SString(LeafType(v, opts))

\* seen.has(data)
SeenHas(seen, v) == v.r \in seen

\* a variant that takes the last element
RepresentativeLast(items) == items[Len(items)]
\* the element of a non-empty array that stands for all of them: data[0]
Representative(items) == items[1]

\* typeof data[0] !== 'object' || data[0] === null
ElementIsLeaf(v) == TypeOf(v) # "object" \/ v.t = "null"

\* extractStructure(data, opts, depth, seen): the shape and the seen-set
\* after the call (the WeakSet is shared by the whole recursion)
RECURSIVE extractStructure(_, _, _, _, _)
RECURSIVE extractProperties(_, _, _, _, _, _)

\* the for (const key of keys) loop of an object, from property i on
extractProperties(h, v, opts, depth, seen, i) ==
  IF i > Len(h[v.r].keys) THEN [vals |-> <<>>, seen |-> seen]
  ELSE LET first == extractStructure(h, h[v.r].items[i], opts, depth + 1, seen)
           rest == extractProperties(h, v, opts, depth, first.seen, i + 1)
       IN [vals |-> <<first.shape>> \o rest.vals, seen |-> rest.seen]

extractStructure(h, v, opts, depth, seen) ==
  IF Truncates(opts, depth) THEN [shape |-> SString(TruncationMarker), seen |-> seen]
  ELSE IF TypeOf(v) # "object" \/ v.t = "null" THEN [shape |-> LeafShape(v, opts), seen |-> seen]
  ELSE IF SeenHas(seen, v) THEN [shape |-> SString(CircularMarker), seen |-> seen]
  ELSE LET seen1 == seen \cup {v.r}
           items == h[v.r].items
       IN IF h[v.r].kind = "array"
          THEN IF Len(items) = 0
               THEN [shape |-> SString(IF opts.keysOnly THEN <<"[]">>
                                       ELSE IF opts.showLength THEN <<"array", "[", "0", "]">>
                                       ELSE <<"array", "[]">>),
                     seen |-> seen1]
               ELSE LET lengthInfo == LengthInfo(opts, Len(items))
                        firstItem == extractStructure(h, Representative(items), opts, depth + 1, seen1)
                    IN IF ElementIsLeaf(Representative(items))
                       THEN [shape |-> SString(IF opts.keysOnly
                                               THEN <<"array">> \o lengthInfo
                                               ELSE <<"array">> \o lengthInfo \o <<"<">>
                                                    \o firstItem.shape.s \o <<">">>),
                             seen |-> firstItem.seen]
                       ELSE [shape |-> SObject(<<"__type__", "__items__">>,
                                               <<SString(<<"array">> \o lengthInfo), firstItem.shape>>),
                             seen |-> firstItem.seen]
          ELSE IF Len(items) = 0
               THEN [shape |-> SObject(<<>>, <<>>), seen |-> seen1]
               ELSE LET props == extractProperties(h, v, opts, depth, seen1, 1)
                    IN [shape |-> SObject(h[v.r].keys, props.vals), seen |-> props.seen]

(***************************************************************************)
(* Rendering a shape as plain text: structureToText.                       *)
(***************************************************************************)
\* content.startsWith(prefix)
StartsWith(content, prefix) == Len(content) > 0 /\ content[1] = prefix

\* str.repeat(n)
RECURSIVE Repeat(_, _)
Repeat(s, n) == IF n <= 0 THEN <<>> ELSE s \o Repeat(s, n - 1)

\* a property name as text
KeyText(key) == IF key = "" THEN <<>> ELSE <<key>>

\* structure.name of a shape that is an object (undefined when it has no such property)
ShapeHas(structure, name) == IndexOf(structure.keys, name, 1) > 0
ShapeGet(structure, name) == structure.vals[IndexOf(structure.keys, name, 1)]

\* whether a shape is truthy: null and '' are not
Truthy(structure) ==
  CASE structure.k = "null" -> FALSE
    [] structure.k = "string" -> structure.s # <<>>
    [] OTHER -> TRUE

\* `${structure}`
TemplateText(structure) ==
  CASE structure.k = "null" -> <<"null">>
    [] structure.k = "string" -> structure.s
    [] OTHER -> <<"[object Object]">>

\* structure.__type__ && structure.__items__ !== undefined
IsArrayWrapper(structure) ==
  /\ ShapeHas(structure, "__type__")
  /\ Truthy(ShapeGet(structure, "__type__"))
  /\ ShapeHas(structure, "__items__")

RECURSIVE structureToText(_, _, _)
RECURSIVE propertiesToText(_, _, _, _)

\* the keys.forEach loop, from property i on
propertiesToText(structure, indent, compact, i) ==
  IF i > Len(structure.keys) THEN <<>>
  ELSE (IF compact THEN <<>> ELSE Repeat(<<"  ">>, indent + 1))
       \o <<"\"">> \o KeyText(structure.keys[i]) \o <<"\"", ":", " ">>
       \o structureToText(structure.vals[i], indent + 1, compact)
       \o (IF i < Len(structure.keys) THEN <<",">> ELSE <<>>)
       \o (IF compact THEN <<>> ELSE <<"\n">>)
       \o propertiesToText(structure, indent, compact, i + 1)

structureToText(structure, indent, compact) ==
  CASE structure.k = "string" -> structure.s
    [] structure.k = "null" -> <<"null">>
    [] OTHER ->
         IF IsArrayWrapper(structure)
         THEN TemplateText(ShapeGet(structure, "__type__")) \o <<" ">>
              \o structureToText(ShapeGet(structure, "__items__"), indent, compact)
         ELSE IF Len(structure.keys) = 0 THEN <<"{}">>
         ELSE <<"{">> \o (IF compact THEN <<>> ELSE <<"\n">>)
              \o propertiesToText(structure, indent, compact, 1)
              \o (IF compact THEN <<>> ELSE Repeat(<<"  ">>, indent))
              \o <<"}">>

(***************************************************************************)
(* Rendering a shape as highlighted HTML: formatOutput.                    *)
(***************************************************************************)
\* div.textContent = str; return div.innerHTML
EscapeToken(token) ==
  CASE token = "<" -> "&lt;"
    [] token = ">" -> "&gt;"
    [] token = "&" -> "&amp;"
    [] OTHER -> token
escapeHtml(str) == [i \in 1..Len(str) |-> EscapeToken(str[i])]

Span(class, content) == <<"<span class=\"", class, "\">">> \o content \o <<"</span>">>

\* the class of a string shape
TypeClass(s) ==
  IF StartsWith(s, "number") THEN "type-number"
  ELSE IF StartsWith(s, "boolean") THEN "type-boolean"
  ELSE IF StartsWith(s, "null") THEN "type-null"
  ELSE IF StartsWith(s, "array") \/ s = <<"...">> THEN "type-array"
  ELSE IF s = CircularMarker THEN "type-null"
  ELSE "type-string"

RECURSIVE formatOutput(_, _, _)
RECURSIVE propertiesToHtml(_, _, _, _)

\* the keys.forEach loop, from property i on
propertiesToHtml(structure, indent, compact, i) ==
  IF i > Len(structure.keys) THEN <<>>
  ELSE (IF compact THEN <<>> ELSE Repeat(<<"  ">>, indent + 1))
       \o Span("key", <<"\"">> \o escapeHtml(KeyText(structure.keys[i])) \o <<"\"">>)
       \o <<":", " ">>
       \o formatOutput(structure.vals[i], indent + 1, compact)
       \o (IF i < Len(structure.keys) THEN <<",">> ELSE <<>>)
       \o (IF compact THEN <<>> ELSE <<"\n">>)
       \o propertiesToHtml(structure, indent, compact, i + 1)

formatOutput(structure, indent, compact) ==
  CASE structure.k = "string" -> Span(TypeClass(structure.s), escapeHtml(structure.s))
    [] structure.k = "null" -> Span("type-null", <<"null">>)
    [] OTHER ->
         IF IsArrayWrapper(structure)
         THEN Span("type-array", escapeHtml(TemplateText(ShapeGet(structure, "__type__"))))
              \o <<" ">> \o formatOutput(ShapeGet(structure, "__items__"), indent, compact)
         ELSE IF Len(structure.keys) = 0 THEN Span("bracket", <<"{}">>)
         ELSE Span("bracket", <<"{">>) \o (IF compact THEN <<>> ELSE <<"\n">>)
              \o propertiesToHtml(structure, indent, compact, 1)
              \o (IF compact THEN <<>> ELSE Repeat(<<"  ">>, indent))
              \o Span("bracket", <<"}">>)

(***************************************************************************)
(* The comparison report: formatCompareResult.                             *)
(***************************************************************************)
\* the texts of the report, which the source writes in Chinese
AddedLabel == "+ added fields:"
RemovedLabel == "- removed fields:"
IdenticalLabel == "the two JSON structures are identical"
SameLabel == "same fields: "
SameUnit == " entries"

\* result.added.forEach / result.removed.forEach, from item i on
RECURSIVE diffLines(_, _, _, _)
diffLines(items, class, sign, i) ==
  IF i > Len(items) THEN <<>>
  ELSE Span(class, <<sign>> \o items[i].path \o <<": ", items[i].type>>) \o <<"\n">>
       \o diffLines(items, class, sign, i + 1)

\* a variant that looks at the additions only
IsIdenticalNoAdded(result) == Len(result.added) = 0
\* result.added.length === 0 && result.removed.length === 0
IsIdentical(result) == Len(result.added) = 0 /\ Len(result.removed) = 0

formatCompareResult(result) ==
  LET added == IF Len(result.added) > 0
               THEN Span("diff-add", <<AddedLabel>>) \o <<"\n">>
                    \o diffLines(result.added, "diff-add", "  + ", 1) \o <<"\n">>
               ELSE <<>>
      removed == IF Len(result.removed) > 0
                 THEN Span("diff-remove", <<RemovedLabel>>) \o <<"\n">>
                      \o diffLines(result.removed, "diff-remove", "  - ", 1) \o <<"\n">>
                 ELSE <<>>
  IN IF IsIdentical(result)
     THEN Span("diff-same", <<IdenticalLabel>>)
     ELSE added \o removed
          \o Span("diff-same", <<SameLabel, ToString(Len(result.same)), SameUnit>>)

(***************************************************************************)
(* The history: saveToHistory, initHistory, the clear-history click, and   *)
(* chrome.storage.local, whose calls complete later, in the order issued.  *)
(* A text is the name of what was typed and a length; an item's preview    *)
(* and time are left out.                                                  *)
(***************************************************************************)
MAX_HISTORY == 15
maxInputLength == 5000

NullCache == [k |-> "null"]
Absent == [k |-> "absent"]
Array(items) == [k |-> "array", items |-> items]
NoText == [k |-> "none"]
NoCalls == [saves |-> 0, clears |-> 0, clicks |-> 0]
NoClick ==
  [kind |-> "none", input |-> "none", invoked |-> {}, wrote |-> FALSE, saved |-> FALSE,
   compact |-> FALSE]

Text(name, len) == [name |-> name, len |-> len]
\* input.slice(0, n)
Slice(input, n) == [input EXCEPT !.len = IF input.len > n THEN n ELSE input.len]

\* the item saveToHistory builds
HistoryItem(id, input) ==
  [id |-> id,
   input |-> IF input.len > maxInputLength THEN Slice(input, maxInputLength) ELSE input,
   truncated |-> input.len > maxInputLength]

\* a variant that keeps the newest MAX_HISTORY + 1
PopBeyondCap(history) ==
  IF Len(history) > MAX_HISTORY + 1 THEN SubSeq(history, 1, Len(history) - 1) ELSE history
\* if (history.length > MAX_HISTORY) history.pop()
PopOverCap(history) ==
  IF Len(history) > MAX_HISTORY THEN SubSeq(history, 1, Len(history) - 1) ELSE history

\* history.unshift(item), then the pop
Unshift(history, item) == PopOverCap(<<item>> \o history)

\* result[key] !== undefined ? result[key] : []
Loaded == IF storage.k = "absent" THEN <<>> ELSE storage.items

\* saveToHistory(input) up to its first await: with a cache the history is updated
\* at once and the write issued, without one the stored history is read first
saveToHistory(input) ==
  IF historyCache.k = "array"
  THEN LET history == Unshift(historyCache.items, HistoryItem(nextId, input))
       IN /\ historyCache' = Array(history)
          /\ pending' = Append(pending, [op |-> "set", value |-> history])
          /\ nextId' = nextId + 1
          /\ UNCHANGED storage
  ELSE /\ pending' = Append(pending, [op |-> "get", then |-> "saveToHistory", input |-> input])
       /\ UNCHANGED <<historyCache, storage, nextId>>

\* the oldest pending chrome.storage call completes and its continuation runs
StorageCompletes ==
  /\ pending # <<>>
  /\ LET call == pending[1]
     IN CASE call.op = "get" /\ call.then = "init" ->
               \* migrateFromLocalStorage, initTheme, loadOptions done: initHistory starts
               /\ pending' = Append(Tail(pending), [op |-> "get", then |-> "initHistory"])
               /\ UNCHANGED <<historyCache, storage, nextId, toast>>
          [] call.op = "get" /\ call.then = "initHistory" ->
               /\ historyCache' = Array(Loaded)
               /\ pending' = Tail(pending)
               /\ UNCHANGED <<storage, nextId, toast>>
          [] call.op = "get" /\ call.then = "saveToHistory" ->
               LET history == Unshift(Loaded, HistoryItem(nextId, call.input))
               IN /\ historyCache' = Array(history)
                  /\ pending' = Append(Tail(pending), [op |-> "set", value |-> history])
                  /\ nextId' = nextId + 1
                  /\ UNCHANGED <<storage, toast>>
          [] call.op = "set" ->
               /\ storage' = Array(call.value)
               /\ pending' = Tail(pending)
               /\ UNCHANGED <<historyCache, nextId, toast>>
          [] call.op = "remove" ->
               /\ storage' = Absent
               /\ historyCache' = Array(<<>>)
               /\ toast' = "historyCleared"
               /\ pending' = Tail(pending)
               /\ UNCHANGED nextId
  /\ UNCHANGED <<heap, data, dataB, options, structureResult, outputHtml, outputText,
                 compareResult, phase, secondResult, compareOutput,
                 script, currentTab, clipboard, lastClick, extraction, calls>>

\* the clear-history click up to its await: chrome.storage.local.remove(HISTORY_KEY)
ClearHistoryClick ==
  /\ calls.clears < MaxClears
  /\ calls' = [calls EXCEPT !.clears = @ + 1]
  /\ pending' = Append(pending, [op |-> "remove"])
  /\ UNCHANGED <<heap, data, dataB, options, structureResult, outputHtml, outputText,
                 compareResult, phase, secondResult, compareOutput,
                 historyCache, storage, nextId, popupVars>>

\* the raw inputs saved: a short one, one of exactly maxInputLength, one longer
RawInputs ==
  {Text("short", 2), Text("limit", maxInputLength), Text("long", maxInputLength + 1)}

\* a call of saveToHistory(input), as the extract click makes it
SaveToHistoryCall ==
  /\ calls.saves < MaxSaves
  /\ calls' = [calls EXCEPT !.saves = @ + 1]
  /\ \E input \in RawInputs : saveToHistory(input)
  /\ UNCHANGED <<heap, data, dataB, options, structureResult, outputHtml, outputText,
                 compareResult, phase, secondResult, compareOutput, popupVars>>

(***************************************************************************)
(* TypeScript generation: generateTypeScript, typeScriptToText.            *)
(***************************************************************************)
\* the property names matching /^[a-zA-Z_$][a-zA-Z0-9_$]*$/
BareIdentifiers == {"x", "y", "a", "b", "constructor", "__type__", "__items__"}
SafeKey(key) == IF key \in BareIdentifiers THEN <<key>> ELSE <<"\"">> \o KeyText(key) \o <<"\"">>

\* a variant that takes every composite element for a plain object
ElementIsComposite(h, v) == IsRef(v)
\* typeof data[0] === 'object' && data[0] !== null && !Array.isArray(data[0])
ElementIsPlainObject(h, v) == IsObject(h, v)

RECURSIVE generateTypeScript(_, _, _)
RECURSIVE generateObjectFields(_, _, _, _)

\* the lines of generateObjectFields joined by '\n', from property i on
generateObjectFields(h, obj, indent, i) ==
  IF i > Len(h[obj.r].keys) THEN <<>>
  ELSE Repeat(<<"  ">>, indent) \o SafeKey(h[obj.r].keys[i]) \o <<":", " ">>
       \o generateTypeScript(h, h[obj.r].items[i], indent) \o <<";">>
       \o (IF i < Len(h[obj.r].keys) THEN <<"\n">> ELSE <<>>)
       \o generateObjectFields(h, obj, indent, i + 1)

generateTypeScript(h, v, indent) ==
  CASE v.t = "null" -> <<"null">>
    [] v.t = "undefined" -> <<"undefined">>
    [] v.t \in {"string", "number", "boolean"} -> <<v.t>>
    [] v.t = "ref" ->
         IF h[v.r].kind = "array"
         THEN IF Len(h[v.r].items) = 0 THEN <<"any", "[]">>
              ELSE IF ElementIsPlainObject(h, h[v.r].items[1])
                   THEN <<"Array", "<", "{", "\n">>
                        \o generateObjectFields(h, h[v.r].items[1], indent + 1, 1)
                        \o <<"\n">> \o Repeat(<<"  ">>, indent) \o <<"}", ">">>
                   ELSE generateTypeScript(h, h[v.r].items[1], indent) \o <<"[]">>
         ELSE <<"{", "\n">> \o generateObjectFields(h, v, indent + 1, 1)
              \o <<"\n">> \o Repeat(<<"  ">>, indent) \o <<"}">>
    [] OTHER -> <<"any">>

InterfaceName == <<"IResponse">>

\* !content.startsWith('{') && !content.startsWith('Array')
IsSimpleType(content) == ~StartsWith(content, "{") /\ ~StartsWith(content, "Array")

typeScriptToText(h, v) ==
  LET content == generateTypeScript(h, v, 0)
  IN IF IsSimpleType(content)
     THEN <<"type", " ">> \o InterfaceName \o <<" ", "=", " ">> \o content \o <<";">>
     ELSE <<"interface", " ">> \o InterfaceName \o <<" ">> \o content

\* the type names highlightTypeScript marks
TsTypeNames == {"string", "number", "boolean", "null", "undefined", "any"}

\* code.replace(type names).replace(/\bArray</g, ...), from token i on
RECURSIVE highlightTypeScript(_, _)
highlightTypeScript(code, i) ==
  IF i > Len(code) THEN <<>>
  ELSE (IF code[i] \in TsTypeNames THEN Span("ts-type", <<code[i]>>)
        ELSE IF code[i] = "Array" /\ i < Len(code) /\ code[i + 1] = "<"
             THEN Span("ts-type", <<"Array">>)
        ELSE <<code[i]>>)
       \o highlightTypeScript(code, i + 1)

formatTypeScript(h, v) ==
  LET content == generateTypeScript(h, v, 0)
  IN IF IsSimpleType(content)
     THEN Span("ts-keyword", <<"type">>) \o <<" ">> \o Span("ts-interface", InterfaceName)
          \o <<" ", "=", " ">> \o Span("ts-type", content) \o <<";">>
     ELSE Span("ts-keyword", <<"interface">>) \o <<" ">> \o Span("ts-interface", InterfaceName)
          \o <<" ">> \o highlightTypeScript(content, 1)

(***************************************************************************)
(* Structure comparison: compareStructures.                                *)
(***************************************************************************)
\* the properties every object inherits from Object.prototype
ProtoKeys == {"constructor"}

\* getType(value)
getType(h, v) ==
  CASE v.t = "null" -> "null"
    [] v.t = "ref" -> h[v.r].kind
    [] OTHER -> v.t

\* key in obj
KeyIn(h, obj, key) == HasOwn(h, obj, key) \/ key \in ProtoKeys

\* obj[key]
Get(h, obj, key) ==
  IF HasOwn(h, obj, key) THEN GetOwn(h, obj, key)
  ELSE IF key \in ProtoKeys THEN Func
  ELSE Undefined

\* path || 'root'
PathOrRoot(path) == IF path = <<>> THEN <<"root">> ELSE path

\* path ? `${path}.${key}` : key
ChildPath(path, key) == IF path # <<>> THEN path \o <<".">> \o KeyText(key) ELSE KeyText(key)

Entry(path, type) == [path |-> path, type |-> type]

\* [...new Set([...keysA, ...keysB])]
RECURSIVE Unique(_, _)
Unique(seq, i) ==
  IF i > Len(seq) THEN <<>>
  ELSE IF IndexOf(seq, seq[i], 1) < i THEN Unique(seq, i + 1)
  ELSE <<seq[i]>> \o Unique(seq, i + 1)

\* a variant that drops keysA.length > 0
ObjectIsSameAlways(result, keysA) == result.added = <<>> /\ result.removed = <<>>
\* result.added.length === 0 && result.removed.length === 0 && keysA.length > 0
ObjectIsSame(result, keysA) == result.added = <<>> /\ result.removed = <<>> /\ Len(keysA) > 0

\* a variant that records an array only when its elements were compared
ArrayIsSameWhenCompared(result) == result.added = <<>> /\ result.removed = <<>> /\ result.same # <<>>
\* result.added.length === 0 && result.removed.length === 0
ArrayIsSame(result) == result.added = <<>> /\ result.removed = <<>>

\* a variant that tells kinds apart only when a composite is involved
KindsDifferCompositeOnly(h, a, b) == getType(h, a) # getType(h, b) /\ (IsRef(a) \/ IsRef(b))
\* typeA !== typeB
KindsDiffer(h, a, b) == getType(h, a) # getType(h, b)

RECURSIVE compareStructures(_, _, _, _)
RECURSIVE compareKeys(_, _, _, _, _, _, _)

\* the for (const key of allKeys) loop, from key i on
compareKeys(h, a, b, path, allKeys, i, result) ==
  IF i > Len(allKeys) THEN result
  ELSE LET key == allKeys[i]
           newPath == ChildPath(path, key)
           next ==
             IF ~KeyIn(h, a, key)
             THEN [result EXCEPT !.added = Append(@, Entry(newPath, getType(h, Get(h, b, key))))]
             ELSE IF ~KeyIn(h, b, key)
             THEN [result EXCEPT !.removed = Append(@, Entry(newPath, getType(h, Get(h, a, key))))]
             ELSE LET sub == compareStructures(h, Get(h, a, key), Get(h, b, key), newPath)
                  IN [same |-> result.same \o sub.same,
                      added |-> result.added \o sub.added,
                      removed |-> result.removed \o sub.removed]
       IN compareKeys(h, a, b, path, allKeys, i + 1, next)

compareStructures(h, a, b, path) ==
  LET empty == [same |-> <<>>, added |-> <<>>, removed |-> <<>>]
      typeA == getType(h, a)
      typeB == getType(h, b)
  IN IF KindsDiffer(h, a, b)
     THEN [same |-> <<>>,
           added |-> <<Entry(PathOrRoot(path), typeB)>>,
           removed |-> <<Entry(PathOrRoot(path), typeA)>>]
     ELSE IF typeA = "object"
     THEN LET keysA == OwnKeys(h, a)
              keysB == OwnKeys(h, b)
              result == compareKeys(h, a, b, path, Unique(keysA \o keysB, 1), 1, empty)
          IN IF ObjectIsSame(result, keysA)
             THEN [result EXCEPT !.same = Append(@, Entry(PathOrRoot(path), "object"))]
             ELSE result
     ELSE IF typeA = "array"
     THEN LET itemsA == h[a.r].items
              itemsB == h[b.r].items
              result == IF Len(itemsA) > 0 /\ Len(itemsB) > 0
                        THEN compareStructures(h, itemsA[1], itemsB[1], path \o <<"[0]">>)
                        ELSE empty
          IN IF ArrayIsSame(result)
             THEN [result EXCEPT !.same = Append(@, Entry(PathOrRoot(path), "array"))]
             ELSE result
     ELSE [empty EXCEPT !.same = <<Entry(PathOrRoot(path), typeA)>>]

(***************************************************************************)
(* The caller builds the input value, then the operation is applied.       *)
(* Spec builds any value graph (sharing and cycles included) and extracts  *)
(* its structure; SpecCompare builds two JSON trees and compares them.     *)
(***************************************************************************)
Policies ==
  [showLength : BOOLEAN, showSample : BOOLEAN, keysOnly : BOOLEAN,
   compact : BOOLEAN, maxDepth : 0..MaxDepthOption]

NoOptions ==
  [showLength |-> TRUE, showSample |-> FALSE, keysOnly |-> FALSE,
   compact |-> FALSE, maxDepth |-> 0]
NoShape == [k |-> "none"]
NoCompare == [same |-> <<>>, added |-> <<>>, removed |-> <<>>]

\* the kinds of value a compared JSON text carries, and its property names
ComparePrimitives == {Null, Num(7), Str(<<"s">>)}
CompareKeys == {"a", "constructor", ""}
Refs(h) == {Ref(n) : n \in 1..Len(h)}

\* every node is referenced at most once and no node reaches itself: what JSON.parse returns
RECURSIVE CountRefs(_, _, _)
CountRefs(h, r, n) ==
  IF n > Len(h) THEN 0
  ELSE Cardinality({i \in 1..Len(h[n].items) : h[n].items[i] = Ref(r)}) + CountRefs(h, r, n + 1)
IsTree(h, root) ==
  \A r \in 1..Len(h) : CountRefs(h, r, 1) + (IF root = Ref(r) THEN 1 ELSE 0) = 1

\* before any second call
InitOther ==
  /\ secondResult = NoShape
  /\ compareOutput = <<>>
  /\ historyCache = NullCache
  /\ storage = Absent
  /\ pending = <<>>
  /\ nextId = 1
  /\ script = "popup.js"
  /\ currentTab = "extract"
  /\ clipboard = NoText
  /\ toast = "none"
  /\ lastClick = NoClick
  /\ extraction = "none"
  /\ calls = NoCalls

\* no composite of the heap reaches itself
RECURSIVE ReachesIn(_, _, _, _)
ReachesIn(h, from, to, steps) ==
  /\ steps > 0
  /\ \E i \in 1..Len(h[from].items) :
       LET child == h[from].items[i]
       IN IsRef(child) /\ (child.r = to \/ ReachesIn(h, child.r, to, steps - 1))
Acyclic(h) == \A n \in 1..Len(h) : ~ReachesIn(h, n, n, Len(h))

\* a value equal to v built from objects of its own, none of them shared:
\* what JSON.parse returns for the text of v
RECURSIVE CopyValue(_, _, _)
RECURSIVE CopyItems(_, _, _, _, _)
CopyItems(h, from, i, out, n) ==
  IF i > Len(h[from].items) THEN out
  ELSE LET copy == CopyValue(h, h[from].items[i], out)
       IN CopyItems(h, from, i + 1, [copy.heap EXCEPT ![n].items = Append(@, copy.val)], n)
CopyValue(h, v, out) ==
  IF ~IsRef(v) THEN [val |-> v, heap |-> out]
  ELSE LET n == Len(out) + 1
       IN [val |-> Ref(n),
           heap |-> CopyItems(h, v.r, 1, Append(out, [h[v.r] EXCEPT !.items = <<>>]), n)]

Init ==
  /\ \/ heap = <<>> /\ data \in Primitives
     \/ heap \in {<<EmptyObject>>, <<EmptyArray>>} /\ data = Ref(1)
  /\ dataB = Null
  /\ options = NoOptions
  /\ structureResult = NoShape
  /\ outputHtml = <<>>
  /\ outputText = <<>>
  /\ compareResult = NoCompare
  /\ phase = "build"
  /\ InitOther

InitCompare ==
  /\ \/ /\ heap = <<>>
        /\ data \in ComparePrimitives
        /\ dataB \in ComparePrimitives
     \/ /\ heap \in {<<EmptyObject>>, <<EmptyArray>>}
        /\ \/ data = Ref(1) /\ dataB \in ComparePrimitives
           \/ data \in ComparePrimitives /\ dataB = Ref(1)
     \/ /\ heap \in {<<EmptyObject, EmptyObject>>, <<EmptyObject, EmptyArray>>,
                     <<EmptyArray, EmptyObject>>, <<EmptyArray, EmptyArray>>}
        /\ data = Ref(1)
        /\ dataB = Ref(2)
  /\ options = NoOptions
  /\ structureResult = NoShape
  /\ outputHtml = <<>>
  /\ outputText = <<>>
  /\ compareResult = NoCompare
  /\ phase = "buildPair"
  /\ InitOther

CanGrow ==
  \/ phase = "build" /\ Size(heap) < MaxFields
  \/ phase = "buildPair" /\ Size(heap) < MaxPairFields

\* obj[key] = value, value a primitive or a composite built before
SetProperty(n, key, value) ==
  /\ heap[n].kind = "object"
  /\ IndexOf(heap[n].keys, key, 1) = 0
  /\ heap' = [heap EXCEPT ![n].keys = Append(@, key), ![n].items = Append(@, value)]
  /\ UNCHANGED <<data, dataB, options, structureResult, outputHtml, outputText, compareResult, phase, otherVars>>

\* obj[key] = {} or obj[key] = []
SetPropertyNew(n, key, node) ==
  /\ heap[n].kind = "object"
  /\ IndexOf(heap[n].keys, key, 1) = 0
  /\ heap' = Append([heap EXCEPT ![n].keys = Append(@, key),
                                 ![n].items = Append(@, Ref(Len(heap) + 1))], node)
  /\ UNCHANGED <<data, dataB, options, structureResult, outputHtml, outputText, compareResult, phase, otherVars>>

\* arr.push(value)
Push(n, value) ==
  /\ heap[n].kind = "array"
  /\ heap' = [heap EXCEPT ![n].items = Append(@, value)]
  /\ UNCHANGED <<data, dataB, options, structureResult, outputHtml, outputText, compareResult, phase, otherVars>>

\* arr.push({}) or arr.push([])
PushNew(n, node) ==
  /\ heap[n].kind = "array"
  /\ heap' = Append([heap EXCEPT ![n].items = Append(@, Ref(Len(heap) + 1))], node)
  /\ UNCHANGED <<data, dataB, options, structureResult, outputHtml, outputText, compareResult, phase, otherVars>>

\* the structure branch of the extract click, applied to the built value:
\* extractStructure(jsonData, options), then formatOutput and structureToText of its result
Extract(o) ==
  /\ phase = "build"
  /\ options' = o
  /\ structureResult' = extractStructure(heap, data, o, 0, {}).shape
  /\ outputHtml' = formatOutput(structureResult', 0, o.compact)
  /\ outputText' = structureToText(structureResult', 0, o.compact)
  /\ phase' = "extracted"
  /\ UNCHANGED <<heap, data, dataB, compareResult, otherVars>>

\* a second top-level call on the same value with the same options:
\* its seen is a WeakSet of its own (the default of the parameter)
ExtractSame ==
  /\ phase = "extracted"
  /\ secondResult' = extractStructure(heap, data, options, 0, {}).shape
  /\ phase' = "extractedSame"
  /\ UNCHANGED <<heap, data, dataB, options, structureResult, outputHtml, outputText, compareResult,
                 compareOutput, historyVars, popupVars, calls>>

\* a second top-level call, on a value equal to the first built from distinct objects
ExtractEqual ==
  /\ phase = "extracted"
  /\ Acyclic(heap)
  /\ LET copy == CopyValue(heap, data, <<>>)
     IN secondResult' = extractStructure(copy.heap, copy.val, options, 0, {}).shape
  /\ phase' = "extractedEqual"
  /\ UNCHANGED <<heap, data, dataB, options, structureResult, outputHtml, outputText, compareResult,
                 compareOutput, historyVars, popupVars, calls>>

\* the typescript branch of the extract click, applied to a built JSON value:
\* outputText = typeScriptToText(jsonData)
ExtractTypeScript ==
  /\ phase = "build"
  /\ IsTree(heap, data)
  /\ outputText' = typeScriptToText(heap, data)
  /\ phase' = "typescript"
  /\ UNCHANGED <<heap, data, dataB, options, structureResult, outputHtml, compareResult, otherVars>>

\* the compare click, applied to the two built JSON values:
\* result = compareStructures(jsonA, jsonB), shown as formatCompareResult(result)
Compare ==
  /\ phase = "buildPair"
  /\ compareResult' = compareStructures(heap, data, dataB, <<>>)
  /\ compareOutput' = formatCompareResult(compareResult')
  /\ phase' = "compared"
  /\ UNCHANGED <<heap, data, dataB, options, structureResult, outputHtml, outputText,
                 secondResult, historyVars, popupVars, calls>>

\* the caller's next assignment or push while the graph of an extracted input is built
Grow ==
  /\ CanGrow
  /\ \/ \E n \in 1..Len(heap), key \in Keys, value \in Primitives \cup Refs(heap) :
          SetProperty(n, key, value)
     \/ \E n \in 1..Len(heap), key \in Keys, node \in {EmptyObject, EmptyArray} :
          SetPropertyNew(n, key, node)
     \/ \E n \in 1..Len(heap), value \in Primitives \cup Refs(heap) : Push(n, value)
     \/ \E n \in 1..Len(heap), node \in {EmptyObject, EmptyArray} : PushNew(n, node)

\* the same while two JSON trees are built: no node is referenced twice
GrowPair ==
  /\ CanGrow
  /\ \/ \E n \in 1..Len(heap), key \in CompareKeys, value \in ComparePrimitives :
          SetProperty(n, key, value)
     \/ \E n \in 1..Len(heap), key \in CompareKeys, node \in {EmptyObject, EmptyArray} :
          SetPropertyNew(n, key, node)
     \/ \E n \in 1..Len(heap), value \in ComparePrimitives : Push(n, value)
     \/ \E n \in 1..Len(heap), node \in {EmptyObject, EmptyArray} : PushNew(n, node)

Next ==
  \/ Grow
  \/ \E o \in Policies : Extract(o)
  \/ ExtractSame
  \/ ExtractEqual
  \/ ExtractTypeScript

NextCompare ==
  \/ GrowPair
  \/ Compare

Spec == Init /\ [][Next]_vars
SpecCompare == InitCompare /\ [][NextCompare]_vars

\* a history of n items saved by an earlier popup, newest first
StoredHistory(n) == [i \in 1..n |-> HistoryItem(0 - i, Text("short", 2))]

\* the popup opens: init() has issued its first chrome.storage read
InitHistory ==
  /\ heap = <<>>
  /\ data = Null
  /\ dataB = Null
  /\ options = NoOptions
  /\ structureResult = NoShape
  /\ outputHtml = <<>>
  /\ outputText = <<>>
  /\ compareResult = NoCompare
  /\ phase = "popup"
  /\ secondResult = NoShape
  /\ compareOutput = <<>>
  /\ historyCache = NullCache
  /\ storage \in {Absent} \cup {Array(StoredHistory(n)) : n \in 0..MAX_HISTORY}
  /\ pending = <<[op |-> "get", then |-> "init"]>>
  /\ nextId = 1
  /\ script = "popup.js"
  /\ currentTab = "extract"
  /\ clipboard = NoText
  /\ toast = "none"
  /\ lastClick = NoClick
  /\ extraction = "none"
  /\ calls = NoCalls

NextHistory ==
  \/ SaveToHistoryCall
  \/ ClearHistoryClick
  \/ StorageCompletes

SpecHistory == InitHistory /\ [][NextHistory]_vars

(***************************************************************************)
(* The popup: the clicks of popup.js and of the earlier script part_001.   *)
(* The text of a textarea is blank, not JSON, or the JSON text of one of   *)
(* the values of InputHeap.                                                *)
(***************************************************************************)
\* the composites JSON.parse builds for the texts typed
InputHeap ==
  << [kind |-> "object", keys |-> <<"__type__", "__items__">>, items |-> <<Str(<<"s">>), Num(7)>>] >>

BlankText == [text |-> "blank"]
InvalidText == [text |-> "invalid"]
JsonText(v) == [text |-> "json", value |-> v]
InputTexts == {BlankText, InvalidText} \cup {JsonText(v) : v \in {Num(7), Ref(1)}}

\* getOptions() as the checkboxes and the format select stand at a click
PopupPolicies ==
  [showLength : {TRUE}, showSample : {FALSE}, keysOnly : BOOLEAN, compact : BOOLEAN,
   maxDepth : {0}, format : {"structure", "typescript"}]

\* the catch branch: <span style="color: #ef4444;">JSON parse error: e.message</span>
ParseErrorHtml ==
  <<"<span style=\"color: #ef4444;\">", "JSON parse error: ">>
  \o escapeHtml(<<"e.message">>) \o <<"</span>">>

\* a variant that takes a text that is not JSON for a blank one
IsBlankOrInvalid(text) == text.text \in {"blank", "invalid"}
\* !inputText, after the trim
IsBlank(text) == text.text = "blank"
\* JSON.parse(inputText) returns
Parses(text) == text.text = "json"

\* the result an extract click of popup.js keeps
Held(type, value) == [k |-> "result", type |-> type, data |-> value]

\* !structureResult: null is falsy, a string shape (never empty) and an object are not
HoldsNothing(result) == result.k \in {"none", "null"}

Click(kind, input, fns, wrote, saved, compact) ==
  [kind |-> kind, input |-> input, invoked |-> fns, wrote |-> wrote, saved |-> saved,
   compact |-> compact]

\* the extract click on the text of jsonInput with the options o
ExtractClick(text, o) ==
  /\ calls.clicks < MaxClicks
  /\ script = "part_001" => o.format = "structure"
  /\ calls' = [calls EXCEPT !.clicks = @ + 1]
  /\ CASE IsBlank(text) ->
            /\ toast' = "needInput"
            /\ lastClick' = Click("extract", text.text, {}, FALSE, FALSE, o.compact)
            /\ extraction' = "blank"
            /\ UNCHANGED <<data, options, structureResult, outputHtml, outputText, historyVars>>
       [] ~IsBlank(text) /\ ~Parses(text) ->
            /\ outputHtml' = ParseErrorHtml
            /\ toast' = "parseError"
            /\ structureResult' = NoShape
            /\ lastClick' = Click("extract", text.text, {}, FALSE, FALSE, o.compact)
            /\ extraction' = "failed"
            /\ UNCHANGED <<data, options, outputText, historyVars>>
       [] ~IsBlank(text) /\ Parses(text) /\ script = "popup.js" /\ o.format = "typescript" ->
            /\ data' = text.value
            /\ options' = o
            /\ outputHtml' = formatTypeScript(heap, text.value)
            /\ outputText' = typeScriptToText(heap, text.value)
            /\ structureResult' = Held("typescript", text.value)
            /\ saveToHistory(Text("short", 2))
            /\ toast' = "extracted"
            /\ lastClick' = Click("extract", text.text, {"generateTypeScript"}, FALSE, TRUE,
                                  o.compact)
            /\ extraction' = "ok"
       [] ~IsBlank(text) /\ Parses(text) /\ script = "popup.js" /\ o.format = "structure" ->
            LET shape == extractStructure(heap, text.value, o, 0, {}).shape
            IN /\ data' = text.value
               /\ options' = o
               /\ structureResult' = Held("structure", shape)
               /\ outputHtml' = formatOutput(shape, 0, o.compact)
               /\ outputText' = structureToText(shape, 0, o.compact)
               /\ saveToHistory(Text("short", 2))
               /\ toast' = "extracted"
               /\ lastClick' = Click("extract", text.text, {"extractStructure"}, FALSE, TRUE,
                                     o.compact)
               /\ extraction' = "ok"
       [] ~IsBlank(text) /\ Parses(text) /\ script = "part_001" ->
            LET shape == extractStructure(heap, text.value, o, 0, {}).shape
            IN /\ data' = text.value
               /\ options' = o
               /\ structureResult' = shape
               /\ outputHtml' = formatOutput(shape, 0, o.compact)
               /\ toast' = "extracted"
               /\ lastClick' = Click("extract", text.text, {"extractStructure"}, FALSE, FALSE,
                                     o.compact)
               /\ extraction' = "ok"
               /\ UNCHANGED <<outputText, historyVars>>
  /\ UNCHANGED <<heap, dataB, compareResult, phase, secondResult, compareOutput,
                 script, currentTab, clipboard>>

\* the copy click, the compact checkbox standing as compactNow
CopyClick(compactNow) ==
  /\ calls.clicks < MaxClicks
  /\ calls' = [calls EXCEPT !.clicks = @ + 1]
  /\ IF HoldsNothing(structureResult)
     THEN /\ toast' = "extractFirst"
          /\ lastClick' = Click("copy", "none", {}, FALSE, FALSE, compactNow)
          /\ UNCHANGED clipboard
     ELSE /\ clipboard' =
               IF script = "popup.js"
               THEN IF structureResult.type = "typescript"
                    THEN typeScriptToText(heap, structureResult.data)
                    ELSE structureToText(structureResult.data, 0, compactNow)
               ELSE structureToText(structureResult, 0, compactNow)
          /\ toast' = "copied"
          /\ lastClick' = Click("copy", "none", {}, TRUE, FALSE, compactNow)
  /\ UNCHANGED <<heap, data, dataB, options, structureResult, outputHtml, outputText,
                 compareResult, phase, secondResult, compareOutput, historyVars,
                 script, currentTab, extraction>>

\* the clear click: the extract tab of popup.js and all of part_001, or the compare tab
ClearClick ==
  /\ calls.clicks < MaxClicks
  /\ calls' = [calls EXCEPT !.clicks = @ + 1]
  /\ lastClick' = Click("clear", "none", {}, FALSE, FALSE, FALSE)
  /\ IF script = "part_001" \/ currentTab = "extract"
     THEN /\ outputHtml' = <<>>
          /\ structureResult' = NoShape
          /\ extraction' = "cleared"
          /\ UNCHANGED compareOutput
     ELSE /\ compareOutput' = <<>>
          /\ UNCHANGED <<outputHtml, structureResult, extraction>>
  /\ UNCHANGED <<heap, data, dataB, options, outputText, compareResult, phase, secondResult,
                 historyVars, script, currentTab, clipboard, toast>>

\* a click on a tab of popup.js
SwitchTab(tabName) ==
  /\ calls.clicks < MaxClicks
  /\ script = "popup.js"
  /\ calls' = [calls EXCEPT !.clicks = @ + 1]
  /\ currentTab' = tabName
  /\ lastClick' = Click("tab", "none", {}, FALSE, FALSE, FALSE)
  /\ UNCHANGED <<heap, data, dataB, options, structureResult, outputHtml, outputText,
                 compareResult, phase, secondResult, compareOutput, historyVars,
                 script, clipboard, toast, extraction>>

\* the compare click of popup.js on the texts of compareInputA and compareInputB
CompareClick(textA, textB) ==
  /\ calls.clicks < MaxClicks
  /\ script = "popup.js"
  /\ calls' = [calls EXCEPT !.clicks = @ + 1]
  /\ IF IsBlank(textA) \/ IsBlank(textB)
     THEN /\ toast' = "needTwo"
          /\ lastClick' = Click("compare", "blank", {}, FALSE, FALSE, FALSE)
          /\ UNCHANGED <<dataB, compareResult, compareOutput>>
     ELSE IF ~Parses(textA) \/ ~Parses(textB)
     THEN /\ compareOutput' = ParseErrorHtml
          /\ toast' = "parseError"
          /\ lastClick' = Click("compare", "invalid", {}, FALSE, FALSE, FALSE)
          /\ UNCHANGED <<dataB, compareResult>>
     ELSE /\ dataB' = textB.value
          /\ compareResult' = compareStructures(heap, textA.value, textB.value, <<>>)
          /\ compareOutput' = formatCompareResult(compareResult')
          /\ toast' = "compared"
          /\ lastClick' = Click("compare", "json", {"compareStructures"}, FALSE, FALSE, FALSE)
  /\ UNCHANGED <<heap, data, options, structureResult, outputHtml, outputText, phase,
                 secondResult, historyVars, script, currentTab, clipboard, extraction>>

\* a popup running either script, init() of popup.js done; part_001 keeps no history
InitPopup ==
  /\ heap = InputHeap
  /\ data = Null
  /\ dataB = Null
  /\ options = NoOptions
  /\ structureResult = NoShape
  /\ outputHtml = <<>>
  /\ outputText = <<>>
  /\ compareResult = NoCompare
  /\ phase = "popup"
  /\ secondResult = NoShape
  /\ compareOutput = <<>>
  /\ script \in {"popup.js", "part_001"}
  /\ historyCache = IF script = "popup.js" THEN Array(<<>>) ELSE NullCache
  /\ storage = Absent
  /\ pending = <<>>
  /\ nextId = 1
  /\ currentTab = "extract"
  /\ clipboard = NoText
  /\ toast = "none"
  /\ lastClick = NoClick
  /\ extraction = "none"
  /\ calls = NoCalls

NextPopup ==
  \/ \E text \in InputTexts, o \in PopupPolicies : ExtractClick(text, o)
  \/ \E compactNow \in BOOLEAN : CopyClick(compactNow)
  \/ ClearClick
  \/ \E tabName \in {"extract", "compare"} : SwitchTab(tabName)
  \/ \E textA \in InputTexts, textB \in InputTexts : CompareClick(textA, textB)
  \/ StorageCompletes

SpecPopup == InitPopup /\ [][NextPopup]_vars

(***************************************************************************)
(* Reading a shape back, for the properties below.                         *)
(***************************************************************************)
IsTruncated(shape) == shape = SString(TruncationMarker)
IsCircular(shape) == shape = SString(CircularMarker)

\* the text between '<' and the closing '>' of an array-of-leaf string
Embedded(s) == SubSeq(s, IndexOf(s, "<", 1) + 1, Len(s) - 1)
IsArrayOfLeafString(shape) ==
  /\ shape.k = "string"
  /\ StartsWith(shape.s, "array")
  /\ IndexOf(shape.s, "<", 1) > 0
  /\ shape.s[Len(shape.s)] = ">"

RECURSIVE MaxOver(_, _, _)
RECURSIVE ShapeDepth(_)
MaxOver(shapes, i, acc) ==
  IF i > Len(shapes) THEN acc
  ELSE LET d == ShapeDepth(shapes[i])
       IN MaxOver(shapes, i + 1, IF d > acc THEN d ELSE acc)
\* how deep the object nesting of a shape goes: 0 for a string or null
ShapeDepth(shape) ==
  IF shape.k = "object" /\ Len(shape.vals) > 0 THEN 1 + MaxOver(shape.vals, 1, 0) ELSE 0

\* The shape of value v, met at nesting depth `depth`, is the truncation marker
\* if depth = maxDepth > 0, is not the marker otherwise, and the same holds of
\* every value beneath it, as far as the shape goes
RECURSIVE TruncatedExactlyAt(_, _, _, _, _)
TruncatedExactlyAt(h, v, shape, opts, depth) ==
  IF opts.maxDepth > 0 /\ depth = opts.maxDepth THEN IsTruncated(shape)
  ELSE /\ ~IsTruncated(shape)
       /\ \/ ~IsRef(v)
          \/ IsCircular(shape)
          \/ Len(h[v.r].items) = 0
          \/ /\ h[v.r].kind = "array"
             /\ IF ElementIsLeaf(h[v.r].items[1])
                THEN \/ opts.keysOnly
                     \/ /\ IsArrayOfLeafString(shape)
                        /\ TruncatedExactlyAt(h, h[v.r].items[1], SString(Embedded(shape.s)),
                                              opts, depth + 1)
                ELSE /\ shape.k = "object"
                     /\ shape.keys = <<"__type__", "__items__">>
                     /\ TruncatedExactlyAt(h, h[v.r].items[1], shape.vals[2], opts, depth + 1)
          \/ /\ h[v.r].kind = "object"
             /\ shape.k = "object"
             /\ shape.keys = h[v.r].keys
             /\ \A i \in 1..Len(shape.vals) :
                  TruncatedExactlyAt(h, h[v.r].items[i], shape.vals[i], opts, depth + 1)

(***************************************************************************)
(* C1  Depth truncation.  After an extraction with maxDepth = d > 0 the    *)
(* shape nests no deeper than d and every value met at depth d is replaced *)
(* by the truncation marker '...', whatever its kind; with maxDepth = 0    *)
(* (and at every depth below d) the marker is never produced.              *)
(***************************************************************************)
C1_DepthTruncation ==
  phase = "extracted" =>
    /\ options.maxDepth > 0 => ShapeDepth(structureResult) <= options.maxDepth
    /\ TruncatedExactlyAt(heap, data, structureResult, options, 0)

\* an object in an object, extracted with maxDepth 2: the inner property is cut
C1_Witness ==
  /\ phase = "extracted"
  /\ options.maxDepth = 2
  /\ structureResult.k = "object"
  /\ Len(structureResult.vals) = 1
  /\ structureResult.vals[1].k = "object"
  /\ Len(structureResult.vals[1].vals) = 1
  /\ IsTruncated(structureResult.vals[1].vals[1])
  /\ ~IsRef(heap[2].items[1])

(***************************************************************************)
(* Circular-reference markers against the ancestor chain.  Both walks go   *)
(* down the value and its shape together, keeping the composites that are  *)
(* open on the way down; they stop at a depth truncation.                  *)
(***************************************************************************)
\* the values beneath composite v that the shape describes, each with its shape
ChildPairs(h, v, shape) ==
  IF Len(h[v.r].items) = 0 \/ shape.k # "object" THEN {}
  ELSE IF h[v.r].kind = "array"
       THEN {<<h[v.r].items[1], shape.vals[2]>>}
       ELSE {<<h[v.r].items[i], shape.vals[i]>> : i \in 1..Len(shape.vals)}

\* the marker stands at a reference if and only if its target is an open ancestor
RECURSIVE MarkerIffAncestor(_, _, _, _)
MarkerIffAncestor(h, v, shape, ancestors) ==
  \/ ~IsRef(v)
  \/ IsTruncated(shape)
  \/ /\ IsCircular(shape) <=> v.r \in ancestors
     /\ \/ IsCircular(shape)
        \/ \A pair \in ChildPairs(h, v, shape) :
             MarkerIffAncestor(h, pair[1], pair[2], ancestors \cup {v.r})

\* the marker stands at a reference only if its target is an open ancestor
RECURSIVE MarkerOnlyAtAncestor(_, _, _, _)
MarkerOnlyAtAncestor(h, v, shape, ancestors) ==
  \/ ~IsRef(v)
  \/ IsTruncated(shape)
  \/ IF IsCircular(shape) THEN v.r \in ancestors
     ELSE \A pair \in ChildPairs(h, v, shape) :
            MarkerOnlyAtAncestor(h, pair[1], pair[2], ancestors \cup {v.r})

\* every reference to an open ancestor carries the marker
RECURSIVE AncestorsMarked(_, _, _, _)
AncestorsMarked(h, v, shape, ancestors) ==
  \/ ~IsRef(v)
  \/ IsTruncated(shape)
  \/ IsCircular(shape)
  \/ /\ v.r \notin ancestors
     /\ \A pair \in ChildPairs(h, v, shape) :
          AncestorsMarked(h, pair[1], pair[2], ancestors \cup {v.r})

(***************************************************************************)
(* C2  Cycle safety.  For every finite value graph the extraction ends and *)
(* the shape carries the circular-reference marker exactly at the edges    *)
(* that close a cycle: at a reference to a composite that is open on the   *)
(* way down, and nowhere else.                                             *)
(***************************************************************************)
C2_MarkerExactlyAtCycleEdges ==
  phase = "extracted" => MarkerIffAncestor(heap, data, structureResult, {})

\* what does hold of every graph: the extraction ends (Extract has a successor
\* for every graph and policy) and every cycle-closing edge carries the marker
C2_CycleEdgesMarked ==
  phase = "extracted" => AncestorsMarked(heap, data, structureResult, {})

(***************************************************************************)
(* C3  A composite yields the circular-reference marker only if it is on   *)
(* the current ancestor chain: one referenced from two sibling branches is *)
(* inferred normally in both.                                              *)
(***************************************************************************)
C3_MarkerOnlyOnAncestorChain ==
  phase = "extracted" => MarkerOnlyAtAncestor(heap, data, structureResult, {})

(***************************************************************************)
(* C4  Representative element.  The shape of a non-empty array depends     *)
(* only on its length and its element 0: putting any other value at every  *)
(* index >= 1 of any array of the input leaves the extracted shape as it   *)
(* is.                                                                     *)
(***************************************************************************)
ReplaceTail(h, n, w) ==
  [h EXCEPT ![n].items = [i \in 1..Len(h[n].items) |-> IF i = 1 THEN h[n].items[1] ELSE w]]

C4_RepresentativeElement ==
  phase = "extracted" =>
    \A n \in 1..Len(heap) :
      heap[n].kind = "array" /\ Len(heap[n].items) >= 2 =>
        \A w \in Primitives \cup Refs(heap) :
          extractStructure(ReplaceTail(heap, n, w), data, options, 0, {}).shape = structureResult

\* [7, {}] extracted: element 1 is of another kind than element 0
C4_Witness ==
  /\ phase = "extracted"
  /\ IsArray(heap, data)
  /\ Len(heap[data.r].items) = 2
  /\ heap[data.r].items[1] = Num(7)
  /\ IsObject(heap, heap[data.r].items[2])
  /\ options.keysOnly = FALSE
  /\ IsArrayOfLeafString(structureResult)

(***************************************************************************)
(* Reading a comparison result, for the properties below.                  *)
(***************************************************************************)
\* the kind of a value as the comparison report names it:
\* null, array, object, or the typeof of a primitive
KindOf(h, v) ==
  IF v.t = "ref" THEN (IF h[v.r].kind = "array" THEN "array" ELSE "object") ELSE v.t

\* how many times entry e stands in list
Count(list, e) == Cardinality({i \in 1..Len(list) : list[i] = e})
\* how many entries of list carry path
CountPath(list, path) == Cardinality({i \in 1..Len(list) : list[i].path = path})

\* list holds the entries of part, in their order
RECURSIVE IsSubsequence(_, _, _, _)
IsSubsequence(part, list, i, j) ==
  IF i > Len(part) THEN TRUE
  ELSE IF j > Len(list) THEN FALSE
  ELSE IF part[i] = list[j] THEN IsSubsequence(part, list, i + 1, j + 1)
  ELSE IsSubsequence(part, list, i, j + 1)

\* path lies strictly beneath the node at prefix
StrictlyBeneath(path, prefix) ==
  Len(path) > Len(prefix) /\ SubSeq(path, 1, Len(prefix)) = prefix

AllEntries(result) == result.same \o result.added \o result.removed

BothObjects == IsObject(heap, data) /\ IsObject(heap, dataB)
BothArrays == IsArray(heap, data) /\ IsArray(heap, dataB)
OwnKeySet(h, v) == {h[v.r].keys[i] : i \in 1..Len(h[v.r].keys)}

RootObjectEntry == Entry(<<"root">>, "object")
RootArrayEntry == Entry(<<"root">>, "array")

(***************************************************************************)
(* C5  Comparing two objects.  For every key k that is an own key of a or  *)
(* of b, with child path k at the root: k in a only gives exactly one      *)
(* removed entry {k, kind of a[k]} and no added entry for that path; k in  *)
(* b only gives exactly one added entry {k, kind of b[k]} and no removed   *)
(* entry; k in both merges the child's three lists into the parent's.      *)
(***************************************************************************)
C5_ObjectKeys ==
  phase = "compared" /\ BothObjects =>
    \A key \in OwnKeySet(heap, data) \cup OwnKeySet(heap, dataB) :
      LET inA == HasOwn(heap, data, key)
          inB == HasOwn(heap, dataB, key)
          childPath == ChildPath(<<>>, key)
      IN /\ inA /\ ~inB =>
              /\ Count(compareResult.removed,
                       Entry(childPath, KindOf(heap, GetOwn(heap, data, key)))) = 1
              /\ CountPath(compareResult.removed, childPath) = 1
              /\ CountPath(compareResult.added, childPath) = 0
         /\ inB /\ ~inA =>
              /\ Count(compareResult.added,
                       Entry(childPath, KindOf(heap, GetOwn(heap, dataB, key)))) = 1
              /\ CountPath(compareResult.added, childPath) = 1
              /\ CountPath(compareResult.removed, childPath) = 0
         /\ inA /\ inB =>
              LET sub == compareStructures(heap, GetOwn(heap, data, key),
                                           GetOwn(heap, dataB, key), childPath)
              IN /\ IsSubsequence(sub.same, compareResult.same, 1, 1)
                 /\ IsSubsequence(sub.added, compareResult.added, 1, 1)
                 /\ IsSubsequence(sub.removed, compareResult.removed, 1, 1)

(***************************************************************************)
(* C6  Kinds differ.  Where the kind of a differs from the kind of b the   *)
(* comparison records exactly one removed entry {path, kind of a} and one  *)
(* added entry {path, kind of b} for that node (path || 'root') and no     *)
(* entry of any list for a path beneath it: at the root the result is      *)
(* those two entries, and a property or an element 0 whose kinds differ    *)
(* adds just those two to its parent's result.                             *)
(***************************************************************************)
\* the values met in lock-step one level beneath the roots, with their paths
ChildNodes ==
  IF BothObjects
  THEN {<<GetOwn(heap, data, key), GetOwn(heap, dataB, key), ChildPath(<<>>, key)>> :
          key \in OwnKeySet(heap, data) \cap OwnKeySet(heap, dataB)}
  ELSE IF BothArrays /\ Len(heap[data.r].items) > 0 /\ Len(heap[dataB.r].items) > 0
  THEN {<<heap[data.r].items[1], heap[dataB.r].items[1], <<"[0]">>>>}
  ELSE {}

C6_KindsDiffer ==
  phase = "compared" =>
    /\ KindOf(heap, data) # KindOf(heap, dataB) =>
         compareResult = [same |-> <<>>,
                          added |-> <<Entry(<<"root">>, KindOf(heap, dataB))>>,
                          removed |-> <<Entry(<<"root">>, KindOf(heap, data))>>]
    /\ \A node \in ChildNodes :
         KindOf(heap, node[1]) # KindOf(heap, node[2]) =>
           LET path == PathOrRoot(node[3])
           IN /\ CountPath(compareResult.removed, path) = 1
              /\ Count(compareResult.removed, Entry(path, KindOf(heap, node[1]))) = 1
              /\ CountPath(compareResult.added, path) = 1
              /\ Count(compareResult.added, Entry(path, KindOf(heap, node[2]))) = 1
              /\ CountPath(compareResult.same, path) = 0
              /\ node[3] # <<>> =>
                   \A i \in 1..Len(AllEntries(compareResult)) :
                     ~StrictlyBeneath(AllEntries(compareResult)[i].path, node[3])

\* an object with a property against null, and an object whose property a is
\* an object with a property on one side and a number on the other
C6_Witness ==
  /\ phase = "compared"
  /\ \/ /\ IsObject(heap, data)
        /\ Len(heap[data.r].items) > 0
        /\ dataB = Null
        /\ Len(compareResult.removed) = 1
     \/ /\ BothObjects
        /\ \E node \in ChildNodes :
             /\ IsObject(heap, node[1])
             /\ Len(heap[node[1].r].items) > 0
             /\ ~IsRef(node[2])
             /\ node[3] # <<>>

(***************************************************************************)
(* C7  Comparing two objects records {path || 'root', object} into same if *)
(* and only if, after all keys are processed, the result has no added and  *)
(* no removed entry and a has at least one key.  (What the node itself     *)
(* records: the entries of same beyond those merged from its children.)    *)
(***************************************************************************)
RECURSIVE SumOver(_, _)
SumOver(nodes, e) ==
  IF nodes = {} THEN 0
  ELSE LET node == CHOOSE n \in nodes : TRUE
       IN Count(compareStructures(heap, node[1], node[2], node[3]).same, e)
          + SumOver(nodes \ {node}, e)

\* how many entries e of same the root node recorded itself
RecordedByRoot(e) == Count(compareResult.same, e) - SumOver(ChildNodes, e)

C7_ObjectSame ==
  phase = "compared" /\ BothObjects =>
    /\ RecordedByRoot(RootObjectEntry) \in {0, 1}
    /\ RecordedByRoot(RootObjectEntry) = 1 <=>
         /\ compareResult.added = <<>>
         /\ compareResult.removed = <<>>
         /\ Len(heap[data.r].keys) > 0

\* {a: 7} against {a: 7}: the leaf and then the object are recorded as same
C7_Witness ==
  /\ phase = "compared"
  /\ BothObjects
  /\ Len(heap[data.r].keys) > 0
  /\ compareResult.added = <<>>
  /\ compareResult.removed = <<>>
  /\ Len(compareResult.same) = 2
  /\ compareResult.same[2] = RootObjectEntry

(***************************************************************************)
(* C8  Comparing two arrays.  As claimed: when both are non-empty only the *)
(* elements at index 0 are compared, under the path suffix [0], and        *)
(* {path || 'root', array} is recorded into same iff that comparison gave  *)
(* no addition and no removal; when either array is empty no same entry is *)
(* recorded for the array node.                                            *)
(***************************************************************************)
ElementComparison ==
  IF Len(heap[data.r].items) > 0 /\ Len(heap[dataB.r].items) > 0
  THEN compareStructures(heap, heap[data.r].items[1], heap[dataB.r].items[1], <<"[0]">>)
  ELSE NoCompare

C8_ArraysAsClaimed ==
  phase = "compared" /\ BothArrays =>
    /\ compareResult.added = ElementComparison.added
    /\ compareResult.removed = ElementComparison.removed
    /\ IF Len(heap[data.r].items) > 0 /\ Len(heap[dataB.r].items) > 0
       THEN compareResult.same =
              IF ElementComparison.added = <<>> /\ ElementComparison.removed = <<>>
              THEN Append(ElementComparison.same, RootArrayEntry)
              ELSE ElementComparison.same
       ELSE Count(compareResult.same, RootArrayEntry) = 0

(***************************************************************************)
(* C8, amended.  When both arrays are non-empty only the elements at index *)
(* 0 are compared, under the path suffix [0]; {path || 'root', array} is   *)
(* recorded into same iff no addition and no removal resulted, so when     *)
(* either array is empty (nothing is compared) the array node is recorded  *)
(* as same, and is the only entry.                                         *)
(***************************************************************************)
C8_Arrays ==
  phase = "compared" /\ BothArrays =>
    /\ compareResult.added = ElementComparison.added
    /\ compareResult.removed = ElementComparison.removed
    /\ compareResult.same =
         IF ElementComparison.added = <<>> /\ ElementComparison.removed = <<>>
         THEN Append(ElementComparison.same, RootArrayEntry)
         ELSE ElementComparison.same
    /\ Len(heap[data.r].items) = 0 \/ Len(heap[dataB.r].items) = 0 =>
         compareResult = [same |-> <<RootArrayEntry>>, added |-> <<>>, removed |-> <<>>]

\* [] against [7, "s"]: nothing compared, the array recorded as same
C8_Witness ==
  /\ phase = "compared"
  /\ BothArrays
  /\ Len(heap[data.r].items) = 0
  /\ Len(heap[dataB.r].items) = 2
  /\ compareResult.same = <<RootArrayEntry>>

(***************************************************************************)
(* Reading a keys-only shape and its text, for the properties below.       *)
(***************************************************************************)
TextTokens(text) == {text[i] : i \in 1..Len(text)}
LeafTypeNames == {"null", "undefined", "string", "number", "boolean"}

\* the keys and nesting of a shape, its leaves told apart only as leaf, array
\* label, truncation or circular marker
RECURSIVE Skeleton(_)
Skeleton(shape) ==
  CASE shape.k = "null" -> [sk |-> "leaf"]
    [] shape.k = "string" ->
         IF IsTruncated(shape) THEN [sk |-> "truncated"]
         ELSE IF IsCircular(shape) THEN [sk |-> "circular"]
         ELSE IF StartsWith(shape.s, "array") \/ shape.s = <<"[]">> THEN [sk |-> "array"]
         ELSE [sk |-> "leaf"]
    [] OTHER -> [sk |-> "object", keys |-> shape.keys,
                 vals |-> [i \in 1..Len(shape.vals) |-> Skeleton(shape.vals[i])]]

\* every primitive the shape describes has the shape null
RECURSIVE LeavesAreNull(_, _, _)
LeavesAreNull(h, v, shape) ==
  \/ IsTruncated(shape)
  \/ IsCircular(shape)
  \/ IF IsRef(v)
     THEN \A pair \in ChildPairs(h, v, shape) : LeavesAreNull(h, pair[1], pair[2])
     ELSE shape = SNull

KeysOnlySkeletonKept ==
  Skeleton(structureResult) =
    Skeleton(extractStructure(heap, data, [options EXCEPT !.keysOnly = FALSE], 0, {}).shape)

C10_TopLevelEmission ==
  phase = "typescript" =>
    IF IsObject(heap, data)
    THEN /\ SubSeq(outputText, 1, 4) = <<"interface", " ">> \o InterfaceName \o <<" ">>
         /\ outputText[5] = "{"
         /\ outputText[Len(outputText)] = "}"
    ELSE /\ SubSeq(outputText, 1, 6) = <<"type", " ">> \o InterfaceName \o <<" ", "=", " ">>
         /\ outputText[Len(outputText)] = ";"

(***************************************************************************)
(* Reading the emitted TypeScript, for the properties below.               *)
(***************************************************************************)
\* the type expression within 'type IResponse = <type>;' or 'interface IResponse <type>'
TypeContent(text) ==
  IF text[1] = "type" THEN SubSeq(text, 7, Len(text) - 1) ELSE SubSeq(text, 5, Len(text))

\* Array<{ ...fields of the object obj... }>
InlineStructuralType(h, obj) ==
  <<"Array", "<", "{", "\n">> \o generateObjectFields(h, obj, 1, 1) \o <<"\n", "}", ">">>

IsInlineStructuralType(content) ==
  /\ Len(content) >= 5
  /\ SubSeq(content, 1, 3) = <<"Array", "<", "{">>
  /\ SubSeq(content, Len(content) - 1, Len(content)) = <<"}", ">">>

OnlyElementZeroInspected ==
  \A n \in 1..Len(heap) :
    heap[n].kind = "array" /\ Len(heap[n].items) >= 2 =>
      \A w \in Primitives :
        typeScriptToText(ReplaceTail(heap, n, w), data) = outputText

NoOptionalNoUnion == TextTokens(outputText) \cap {"?", "|"} = {}

(***************************************************************************)
(* C11  Arrays in generateTypeScript, as claimed.  Only element 0 of a     *)
(* non-empty array is inspected; a primitive element 0 gives               *)
(* '<elementType>[]', an element 0 that is a non-null object or an array   *)
(* gives an inline anonymous structural type, an empty array gives any[];  *)
(* no result holds an optional-field marker or a union.                    *)
(***************************************************************************)
C11_ArraysAsClaimed ==
  phase = "typescript" =>
    /\ OnlyElementZeroInspected
    /\ NoOptionalNoUnion
    /\ IsArray(heap, data) =>
         LET items == heap[data.r].items
         IN IF items = <<>> THEN TypeContent(outputText) = <<"any", "[]">>
            ELSE IF IsRef(items[1]) THEN IsInlineStructuralType(TypeContent(outputText))
            ELSE TypeContent(outputText) = <<items[1].t, "[]">>

(***************************************************************************)
(* C11, amended.  Only element 0 of a non-empty array is inspected; an     *)
(* element 0 that is a primitive, null or itself an array gives            *)
(* '<type of element 0>[]', an element 0 that is a plain object gives the  *)
(* inline anonymous structural type built from its fields, an empty array  *)
(* gives any[]; no result holds an optional-field marker or a union.       *)
(***************************************************************************)
C11_Arrays ==
  phase = "typescript" =>
    /\ OnlyElementZeroInspected
    /\ NoOptionalNoUnion
    /\ IsArray(heap, data) =>
         LET items == heap[data.r].items
         IN IF items = <<>> THEN TypeContent(outputText) = <<"any", "[]">>
            ELSE IF IsObject(heap, items[1])
                 THEN TypeContent(outputText) = InlineStructuralType(heap, items[1])
            ELSE TypeContent(outputText) = generateTypeScript(heap, items[1], 0) \o <<"[]">>

\* [[7]] emitted: type IResponse = number[][];
C11_Witness ==
  /\ phase = "typescript"
  /\ IsArray(heap, data)
  /\ Len(heap[data.r].items) = 1
  /\ IsArray(heap, heap[data.r].items[1])
  /\ heap[heap[data.r].items[1].r].items = <<Num(7)>>
  /\ outputText = <<"type", " ", "IResponse", " ", "=", " ", "number", "[]", "[]", ";">>

(***************************************************************************)
(* Counting leaves and leaf-type tokens, for the property below.           *)
(***************************************************************************)
\* how many tokens of text are leaf type names
CountTokens(text) == Cardinality({i \in 1..Len(text) : text[i] \in LeafTypeNames})

RECURSIVE LeafCount(_, _, _, _)
RECURSIVE LeafCountFrom(_, _, _, _, _)
\* the leaves among the properties or elements of node n from position i on
LeafCountFrom(h, n, maxDepth, depth, i) ==
  IF i > Len(h[n].items) THEN 0
  ELSE LeafCount(h, h[n].items[i], maxDepth, depth) + LeafCountFrom(h, n, maxDepth, depth, i + 1)
\* the leaves of the tree v met at a depth below maxDepth (all of them when maxDepth = 0)
LeafCount(h, v, maxDepth, depth) ==
  IF maxDepth > 0 /\ depth >= maxDepth THEN 0
  ELSE IF ~IsRef(v) THEN 1
  ELSE LeafCountFrom(h, v.r, maxDepth, depth + 1, 1)

RECURSIVE RepresentedLeafCount(_, _, _, _)
RECURSIVE RepresentedLeafCountFrom(_, _, _, _, _)
RepresentedLeafCountFrom(h, n, maxDepth, depth, i) ==
  IF i > Len(h[n].items) THEN 0
  ELSE RepresentedLeafCount(h, h[n].items[i], maxDepth, depth)
       + RepresentedLeafCountFrom(h, n, maxDepth, depth, i + 1)
\* the same, counting beneath an array only what its element 0 holds
RepresentedLeafCount(h, v, maxDepth, depth) ==
  IF maxDepth > 0 /\ depth >= maxDepth THEN 0
  ELSE IF ~IsRef(v) THEN 1
  ELSE IF h[v.r].kind = "array"
       THEN IF h[v.r].items = <<>> THEN 0
            ELSE RepresentedLeafCount(h, h[v.r].items[1], maxDepth, depth + 1)
  ELSE RepresentedLeafCountFrom(h, v.r, maxDepth, depth + 1, 1)

C13_PureAndDeterministic ==
  phase \in {"extractedSame", "extractedEqual"} => secondResult = structureResult

\* the part of it that holds: a call on the same value, and a call on an equal
\* value when the first shares no composite, repeat the first result
C13_SameValueRepeats ==
  /\ phase = "extractedSame" => secondResult = structureResult
  /\ phase = "extractedEqual" /\ IsTree(heap, data) => secondResult = structureResult

(***************************************************************************)
(* Reading a comparison report, for the property below.                    *)
(***************************************************************************)
\* the tokens of one report line: <span class="class">sign path: type</span>
ReportLine(class, sign, entry) ==
  <<"<span class=\"", class, "\">", sign>> \o entry.path \o <<": ", entry.type, "</span>", "\n">>

RECURSIVE Concat(_, _)
Concat(lines, i) == IF i > Len(lines) THEN <<>> ELSE lines[i] \o Concat(lines, i + 1)

\* a section: its heading, one line per entry in order, an empty line; nothing when empty
Section(class, label, sign, entries) ==
  IF entries = <<>> THEN <<>>
  ELSE <<"<span class=\"", class, "\">", label, "</span>", "\n">>
       \o Concat([i \in 1..Len(entries) |-> ReportLine(class, sign, entries[i])], 1)
       \o <<"\n">>

SameCountLine(n) ==
  <<"<span class=\"", "diff-same", "\">", SameLabel, ToString(n), SameUnit, "</span>">>

(***************************************************************************)
(* C14  The comparison report.  When added and removed are both empty the  *)
(* report is exactly the single 'structures identical' message; otherwise  *)
(* it is the additions section (present iff added is non-empty, one line   *)
(* per entry in order), then the removals section (present iff removed is  *)
(* non-empty), then a last line with the count of same entries.            *)
(***************************************************************************)
C14_CompareReport ==
  phase = "compared" =>
    IF compareResult.added = <<>> /\ compareResult.removed = <<>>
    THEN compareOutput = <<"<span class=\"", "diff-same", "\">", IdenticalLabel, "</span>">>
    ELSE compareOutput =
           Section("diff-add", AddedLabel, "  + ", compareResult.added)
           \o Section("diff-remove", RemovedLabel, "  - ", compareResult.removed)
           \o SameCountLine(Len(compareResult.same))

\* a report with all three parts: an addition, a removal and a same entry counted
C14_Witness ==
  /\ phase = "compared"
  /\ Len(compareResult.added) >= 1
  /\ Len(compareResult.removed) >= 1
  /\ Len(compareResult.same) >= 1
  /\ SubSeq(compareOutput, Len(compareOutput) - 6, Len(compareOutput))
       = SameCountLine(Len(compareResult.same))

(***************************************************************************)
(* Reading the history, for the properties below.                          *)
(***************************************************************************)
\* the length of the raw input a stored text was taken from
RawLength(text) == (CHOOSE raw \in RawInputs : raw.name = text.name).len

\* at most MAX_HISTORY items, newest first, each input of at most maxInputLength
\* characters and flagged truncated exactly when its raw input was longer
HistoryWellFormed(items) ==
  /\ Len(items) <= MAX_HISTORY
  /\ \A i \in 1..Len(items) :
       /\ items[i].input.len <= maxInputLength
       /\ items[i].truncated <=> RawLength(items[i].input) > maxInputLength
       /\ i > 1 => items[i - 1].id > items[i].id

HistoriesWellFormed ==
  /\ historyCache.k = "array" => HistoryWellFormed(historyCache.items)
  /\ storage.k = "array" => HistoryWellFormed(storage.items)

\* the history a save read: the cache when the save ran at once, else what it loaded
HistoryRead == IF Len(pending') > Len(pending) THEN historyCache.items ELSE Loaded

(***************************************************************************)
(* C16  The history is a capped, most-recent-first buffer.  Starting from  *)
(* a stored history of at most MAX_HISTORY = 15 items, the cached and the  *)
(* stored history always hold at most 15 items, every stored input has at  *)
(* most 5000 characters and is flagged truncated exactly when the raw      *)
(* input was longer; and every save puts its item in front of the history  *)
(* it read, dropping that history's last (oldest) item when it held 15,    *)
(* and issues the write of the result.                                     *)
(***************************************************************************)
C16_CappedHistory ==
  [][/\ HistoriesWellFormed'
     /\ nextId' # nextId =>
          LET new == historyCache'.items
          IN /\ new[1].id = nextId
             /\ Tail(new) = IF Len(HistoryRead) < MAX_HISTORY THEN HistoryRead
                            ELSE SubSeq(HistoryRead, 1, MAX_HISTORY - 1)
             /\ pending'[Len(pending')] = [op |-> "set", value |-> new]]_vars

\* a truncated input saved into a full history: the oldest of the 15 stored is gone
C16_Witness ==
  /\ storage.k = "array"
  /\ Len(storage.items) = MAX_HISTORY
  /\ storage.items[1].id = 1
  /\ storage.items[1].truncated
  /\ storage.items[1].input.len = maxInputLength
  /\ storage.items[MAX_HISTORY].id = 1 - MAX_HISTORY

(***************************************************************************)
(* C18  Cache and storage agree at quiescence.  Once every pending         *)
(* chrome.storage call has completed, the array stored under the history   *)
(* key equals historyCache, an absent key counting as the empty history.   *)
(***************************************************************************)
C18_CacheAgreesAtQuiescence ==
  pending = <<>> => historyCache = Array(Loaded)

(***************************************************************************)
(* Reading a click of the popup, for the properties below.                 *)
(***************************************************************************)
\* this step is a click
IsClick == calls'.clicks # calls.clicks

\* <span style="color: #ef4444;">JSON parse error: e.message</span> and nothing else
OnlyParserMessage(html) ==
  html = <<"<span style=\"color: #ef4444;\">", "JSON parse error: ", "e.message", "</span>">>

\* what a click does whose text fails to parse
RefusedAsParseError ==
  /\ lastClick'.invoked = {}
  /\ ~lastClick'.saved
  /\ UNCHANGED <<historyVars, clipboard, compareResult>>
  /\ lastClick'.kind = "extract" => OnlyParserMessage(outputHtml') /\ structureResult' = NoShape
  /\ lastClick'.kind = "compare" => OnlyParserMessage(compareOutput')

\* a copy click after a failed extract writes nothing
NoCopyAfterFailure ==
  lastClick'.kind = "copy" /\ extraction = "failed" => ~lastClick'.wrote /\ UNCHANGED clipboard

C17_ObjectRenderedAsFields ==
  /\ lastClick.kind = "extract"
  /\ lastClick.input = "json"
  /\ options.format = "structure"
  /\ IsObject(heap, data)
  => LET keys == heap[data.r].keys
         text == structureToText(extractStructure(heap, data, options, 0, {}).shape, 0,
                                 options.compact)
     IN /\ script = "popup.js" => outputText = text
        /\ text[1] = "{" /\ text[Len(text)] = "}"
        /\ \A i \in 1..Len(keys) : keys[i] \in TextTokens(text)
        /\ {"{", "}"} \subseteq TextTokens(outputHtml)
        /\ \A i \in 1..Len(keys) : keys[i] \in TextTokens(outputHtml)

(***************************************************************************)
(* C19  Copy follows extraction, in both popup scripts.  When the most     *)
(* recent extract click parsed its input and no clear of the extract tab   *)
(* and no failed extract happened since, a copy click writes the plain     *)
(* text of that extraction to the clipboard; it is refused only when no    *)
(* successful extraction is held.                                          *)
(***************************************************************************)
ExtractionText(compact) ==
  IF options.format = "typescript" THEN typeScriptToText(heap, data)
  ELSE structureToText(extractStructure(heap, data, options, 0, {}).shape, 0, compact)

C19_CopyFollowsExtraction ==
  lastClick.kind = "copy" /\ extraction = "ok" =>
    /\ lastClick.wrote
    /\ clipboard = ExtractionText(lastClick.compact)

\* the part of it that holds: popup.js
C19_CopyFollowsExtractionInPopupJs ==
  script = "popup.js" => C19_CopyFollowsExtraction

====
